---- MODULE Spec2Model ----
(***************************************************************************)
(* DecloudTimeSeriesPreProcessor (app/otbDecloudTimeSeriesPreProcessor.cxx) *)
(*                                                                         *)
(* The application pairs a SAR and an optical time series by timestamp     *)
(* (GetCandidatesPairs), keeps only the images the pairs use               *)
(* (InstantiateSources), configures the per-pixel functor and the channel  *)
(* slicers (InitFilter) and wires the outputs (DoExecute).  The functor    *)
(* (PixelFunction::operator()) is then run on pixels by the raster engine. *)
(*                                                                         *)
(* Spec      : one run of DoExecute, one action per step.                  *)
(* SpecFuse  : PixelFunction configured by SetParameters with any pairs    *)
(*             list, applied to any pixel.                                 *)
(* SpecRun   : one run of DoExecute, then the functor called through the   *)
(*             outputs.                                                    *)
(* SpecCalls : operator() iteration by iteration, called at two pixel      *)
(*             locations at once on what a completed DoExecute leaves.     *)
(***************************************************************************)
EXTENDS Integers, Sequences, FiniteSets

VARIABLES
  params,          \* the application's parameter values (set before DoExecute)
  m_Outputs,       \* number of outputs (DoInit)
  pc,              \* position of DoExecute
  indicesPairs,    \* DoExecute's local: candidate pairs, original indices
  m_PairsIndices,  \* pairs of indices into the selected stacks
  m_SARStack,      \* selected SAR images, in stack order
  m_OptStack,      \* selected optical images, in stack order
  m_Filter,        \* the functor's members after SetParameters, or NoFilter
  m_OutSAR,        \* SAR channel slicers
  m_OutOpt,        \* optical channel slicers
  outputs,         \* output parameters set by SetParameterOutputImage
  exception,       \* the exception that ended DoExecute, or "none"
  pixel,           \* the functor's last call: its two arguments and its result
  calls            \* the functor's calls under way, one per pixel location

vars == <<params, m_Outputs, pc, indicesPairs, m_PairsIndices, m_SARStack,
          m_OptStack, m_Filter, m_OutSAR, m_OutOpt, outputs, exception, pixel,
          calls>>

(***************************************************************************)
(* Bounds of the model.                                                    *)
(***************************************************************************)
\* most images (and most timestamps) of a run, SAR and optical together
MaxImages == 4
\* largest value of DECLOUD_PREPROCESSING_NOUTPUTS
MaxOutputs == 2
\* longest pairs list handed to the functor in SpecFuse
MaxPairs == 3

(***************************************************************************)
(* Parameter values the model draws from.                                  *)
(***************************************************************************)
\* timestamp strings; "16777217" is not a float (2^24 + 1)
TimestampStrings == {"1", "3", "16777217"}
\* the value of sorting.abs.reftimestamp: "" when the parameter has no value
RefTimestampStrings == {"", "2"}
\* maxgap values (float parameter)
MaxGapValues == {0, 2, 16777216}
\* (SAR, optical) number of components per pixel of the input images
BandChoices == {<<1, 1>>, <<2, 1>>, <<1, 2>>}

\* SetDefaultParameterFloat("nodatasar", 0.0)
DefaultNoDataSAR == 0
\* SetDefaultParameterFloat("nodataopt", -10000.0)
DefaultNoDataOpt == -10000
\* a SAR value and an optical value that are not the no-data values
SARValues == {DefaultNoDataSAR, 5}
OptValues == {DefaultNoDataOpt, 7}

\* enum SortMode
ASC == 0
DES == 1
ABS == 2

Max2(a, b) == IF a >= b THEN a ELSE b

(***************************************************************************)
(* float: TimestampType and DeltaTimestampType are float.  FloatRound is   *)
(* round-to-nearest-even of an integer to a 24-bit significand.            *)
(***************************************************************************)
FloatSignificand == 16777216

RECURSIVE FloatUlp(_)
FloatUlp(a) == IF a < FloatSignificand THEN 1 ELSE 2 * FloatUlp(a \div 2)

FloatRoundAbs(a) ==
  LET u == FloatUlp(a)
      q == a \div u
      r == a % u
  IN  IF 2 * r < u THEN q * u
      ELSE IF 2 * r > u THEN (q + 1) * u
      ELSE IF q % 2 = 0 THEN q * u ELSE (q + 1) * u

FloatRound(x) == IF x >= 0 THEN FloatRoundAbs(x) ELSE 0 - FloatRoundAbs(0 - x)

\* a - b on two floats
FloatSub(a, b) == FloatRound(a - b)

\* std::abs(float)
FloatAbs(x) == IF x >= 0 THEN x ELSE 0 - x

(***************************************************************************)
(* Str2Timestamp: std::stof.  A string that holds no number makes stof     *)
(* throw std::invalid_argument.                                            *)
(***************************************************************************)
StofParses(str) == str \in {"1", "2", "3", "16777217"}

StofDecimal(str) ==
  CASE str = "1" -> 1
    [] str = "2" -> 2
    [] str = "3" -> 3
    [] str = "16777217" -> 16777217

Str2Timestamp(str) == FloatRound(StofDecimal(str))

(***************************************************************************)
(* GetTimestampsWithIndices: entry k (0-based) of the string list becomes  *)
(* {timestamp, index = k}.                                                 *)
(***************************************************************************)
GetTimestampsWithIndices(strs) ==
  [k \in 1..Len(strs) |-> [timestamp |-> Str2Timestamp(strs[k]), index |-> k - 1]]

(***************************************************************************)
(* std::sort(first, last, comp).  The sort is not stable: the result is a  *)
(* permutation of the range in which no element is comp-less than one      *)
(* before it; which of these the library returns is not specified.         *)
(***************************************************************************)
\* the orders in which the positions of S can be laid out
RECURSIVE Arrangements(_)
Arrangements(S) ==
  IF S = {} THEN {<<>>}
  ELSE UNION {{<<k>> \o rest : rest \in Arrangements(S \ {k})} : k \in S}

\* the elements of a range
Range(ts) == {ts[k] : k \in 1..Len(ts)}

\* comp[a, b]: the comparator's answer for the elements a, b of the range
StdSort(ts, comp) ==
  {[k \in 1..Len(ts) |-> ts[f[k]]] :
     f \in {g \in Arrangements(1..Len(ts)) :
              \A i, j \in 1..Len(ts) : i < j => ~comp[ts[g[j]], ts[g[i]]]}}

(***************************************************************************)
(* SortTimestampsWithIndices: the three comparators, and the outcomes of   *)
(* the sort.  Under ABS the reference timestamp is parsed first, and stof  *)
(* throws when the string holds no number.                                 *)
(***************************************************************************)
CompASC(a, b) == a.timestamp < b.timestamp

CompDES(a, b) == a.timestamp > b.timestamp

CompABS(refTimestamp, a, b) ==
  FloatAbs(FloatSub(a.timestamp, refTimestamp))
    < FloatAbs(FloatSub(b.timestamp, refTimestamp))

SortTimestampsThrows(sortMode, refStr) ==
  sortMode = ABS /\ ~StofParses(refStr)

SortTimestampsWithIndices(ts, sortMode, refStr) ==
  IF sortMode = ASC
    THEN StdSort(ts, [a \in Range(ts), b \in Range(ts) |-> CompASC(a, b)])
  ELSE IF sortMode = DES
    THEN StdSort(ts, [a \in Range(ts), b \in Range(ts) |-> CompDES(a, b)])
  ELSE IF sortMode = ABS
    THEN LET refTimestamp == Str2Timestamp(refStr)
         IN  StdSort(ts, [a \in Range(ts), b \in Range(ts) |->
                            CompABS(refTimestamp, a, b)])
  ELSE {ts}

(***************************************************************************)
(* GetCandidatesPairs, the loop over the sorted optical images.            *)
(***************************************************************************)
\* the SAR comparator as it would be without std::abs
CompClosestSigned(optTs, i, j) ==
  FloatSub(i.timestamp, optTs) < FloatSub(j.timestamp, optTs)

\* the comparator of the SAR sort: closest to the optical timestamp first
CompClosest(optTs, i, j) ==
  FloatAbs(FloatSub(i.timestamp, optTs)) < FloatAbs(FloatSub(j.timestamp, optTs))

\* the maxgap test as it would be with < for <=
SatisfiesMaxGapStrict(sarTs, optTs, maxgap) ==
  FloatAbs(FloatSub(sarTs, optTs)) < maxgap

\* if (std::abs(sarTsWithIdx.timestamp - optTs) <= maxgap)
SatisfiesMaxGap(sarTs, optTs, maxgap) ==
  FloatAbs(FloatSub(sarTs, optTs)) <= maxgap

\* indicesPairs.push_back({ sarTsWithIdx.index, optIdx })
MakeIndicesPair(sarTsWithIdx, optIdx) ==
  [first |-> sarTsWithIdx.index, second |-> optIdx]

\* the pairs one optical image adds, walking a sorted SAR list
PairsOfOptical(sarSorted, optTsWithIdx, maxgap) ==
  LET Kept(e) == SatisfiesMaxGap(e.timestamp, optTsWithIdx.timestamp, maxgap)
      kept == SelectSeq(sarSorted, Kept)
  IN  [k \in 1..Len(kept) |-> MakeIndicesPair(kept[k], optTsWithIdx.index)]

\* every pairs list one optical image can add (one per outcome of the SAR sort)
GroupOutcomes(sarList, optTsWithIdx, maxgap) ==
  LET comp == [i \in Range(sarList), j \in Range(sarList) |->
                 CompClosest(optTsWithIdx.timestamp, i, j)]
  IN  {PairsOfOptical(s, optTsWithIdx, maxgap) : s \in StdSort(sarList, comp)}

\* every pairs list the loop can build from position k of the sorted optical list
RECURSIVE LoopOutcomes(_, _, _, _)
LoopOutcomes(sarList, optSorted, maxgap, k) ==
  IF k > Len(optSorted) THEN {<<>>}
  ELSE {g \o rest : g \in GroupOutcomes(sarList, optSorted[k], maxgap),
                    rest \in LoopOutcomes(sarList, optSorted, maxgap, k + 1)}

(***************************************************************************)
(* GetCandidatesPairs: what the call can return, and when it throws.       *)
(***************************************************************************)
AllParse(strs) == \A k \in 1..Len(strs) : StofParses(strs[k])

\* the optical list after SortTimestampsWithIndices, one per outcome
SortedOptical(p) ==
  SortTimestampsWithIndices(GetTimestampsWithIndices(p.timestampsopt),
                            p.sorting, p.reftimestamp)

\* the pairs lists the loop can build (before the test for an empty list)
CollectedPairs(p) ==
  UNION {LoopOutcomes(GetTimestampsWithIndices(p.timestampssar), optSorted, p.maxgap, 1) :
           optSorted \in SortedOptical(p)}

\* Str2Timestamp throws on a timestamp or on the reference timestamp
GetCandidatesPairsParseError(p) ==
  \/ ~AllParse(p.timestampssar)
  \/ ~AllParse(p.timestampsopt)
  \/ SortTimestampsThrows(p.sorting, p.reftimestamp)

(***************************************************************************)
(* Images.  An image list of n images holds the images 0 .. n-1 of its     *)
(* series; GetNthElement(idx) is element idx, counted from 0.              *)
(***************************************************************************)
ImageList(series, n) == [k \in 1..n |-> [series |-> series, id |-> k - 1]]

GetNthElement(list, idx) == list[idx + 1]

(***************************************************************************)
(* InstantiateSources: the loop over inIndicesPairs.  st holds the locals  *)
(* sarOldIdx, optOldIdx, the two counters, the two new image lists and     *)
(* outIndicesPairs.                                                        *)
(***************************************************************************)
\* std::find as it would be if it never found the index
StdFindNotFound(v, x) == Len(v)

\* std::find(v.begin(), v.end(), x) - v.begin(); Len(v) when x is not in v
StdFind(v, x) ==
  IF \E k \in 1..Len(v) : v[k] = x
    THEN (CHOOSE k \in 1..Len(v) : v[k] = x /\ \A m \in 1..(k - 1) : v[m] # x) - 1
    ELSE Len(v)

InstantiateStart ==
  [sarOldIdx |-> <<>>, optOldIdx |-> <<>>,
   sarNewIdxCounter |-> 0, optNewIdxCounter |-> 0,
   sarList |-> <<>>, optList |-> <<>>,
   outIndicesPairs |-> <<>>]

\* the loop body as it would be if it took the images at the new indices
InstantiateStepImageAtNewIdx(st, pair, inSARList, inOptList) ==
  LET sarIdx == pair.first
      optIdx == pair.second
      sarSearch == StdFind(st.sarOldIdx, sarIdx)
      sarAdd == sarSearch = Len(st.sarOldIdx)
      sarNewIdx == IF sarAdd THEN st.sarNewIdxCounter ELSE sarSearch
      optSearch == StdFind(st.optOldIdx, optIdx)
      optAdd == optSearch = Len(st.optOldIdx)
      optNewIdx == IF optAdd THEN st.optNewIdxCounter ELSE optSearch
  IN  [sarOldIdx |-> IF sarAdd THEN Append(st.sarOldIdx, sarIdx) ELSE st.sarOldIdx,
       optOldIdx |-> IF optAdd THEN Append(st.optOldIdx, optIdx) ELSE st.optOldIdx,
       sarNewIdxCounter |-> IF sarAdd THEN st.sarNewIdxCounter + 1 ELSE st.sarNewIdxCounter,
       optNewIdxCounter |-> IF optAdd THEN st.optNewIdxCounter + 1 ELSE st.optNewIdxCounter,
       sarList |-> IF sarAdd THEN Append(st.sarList, GetNthElement(inSARList, sarNewIdx))
                             ELSE st.sarList,
       optList |-> IF optAdd THEN Append(st.optList, GetNthElement(inOptList, optNewIdx))
                             ELSE st.optList,
       outIndicesPairs |-> Append(st.outIndicesPairs,
                                  [first |-> sarNewIdx, second |-> optNewIdx])]

\* one iteration of the loop, for one pair
InstantiateStep(st, pair, inSARList, inOptList) ==
  LET sarIdx == pair.first
      optIdx == pair.second
      sarSearch == StdFind(st.sarOldIdx, sarIdx)
      sarAdd == sarSearch = Len(st.sarOldIdx)
      sarNewIdx == IF sarAdd THEN st.sarNewIdxCounter ELSE sarSearch
      optSearch == StdFind(st.optOldIdx, optIdx)
      optAdd == optSearch = Len(st.optOldIdx)
      optNewIdx == IF optAdd THEN st.optNewIdxCounter ELSE optSearch
  IN  [sarOldIdx |-> IF sarAdd THEN Append(st.sarOldIdx, sarIdx) ELSE st.sarOldIdx,
       optOldIdx |-> IF optAdd THEN Append(st.optOldIdx, optIdx) ELSE st.optOldIdx,
       sarNewIdxCounter |-> IF sarAdd THEN st.sarNewIdxCounter + 1 ELSE st.sarNewIdxCounter,
       optNewIdxCounter |-> IF optAdd THEN st.optNewIdxCounter + 1 ELSE st.optNewIdxCounter,
       sarList |-> IF sarAdd THEN Append(st.sarList, GetNthElement(inSARList, sarIdx))
                             ELSE st.sarList,
       optList |-> IF optAdd THEN Append(st.optList, GetNthElement(inOptList, optIdx))
                             ELSE st.optList,
       outIndicesPairs |-> Append(st.outIndicesPairs,
                                  [first |-> sarNewIdx, second |-> optNewIdx])]

RECURSIVE InstantiateLoop(_, _, _, _, _)
InstantiateLoop(st, inIndicesPairs, inSARList, inOptList, k) ==
  IF k > Len(inIndicesPairs) THEN st
  ELSE InstantiateLoop(InstantiateStep(st, inIndicesPairs[k], inSARList, inOptList),
                       inIndicesPairs, inSARList, inOptList, k + 1)

InstantiateSources(inIndicesPairs, inSARList, inOptList) ==
  InstantiateLoop(InstantiateStart, inIndicesPairs, inSARList, inOptList, 1)

(***************************************************************************)
(* PixelFunction.                                                          *)
(***************************************************************************)
\* the members after SetParameters
SetParameters(pairs, sarNbBands, optNbBands, sarNdVal, optNdVal, nbOutputImages) ==
  [m_Pairs |-> pairs,
   m_SARNbBands |-> sarNbBands,
   m_OptNbBands |-> optNbBands,
   m_SARNoDataValue |-> sarNdVal,
   m_OptNoDataValue |-> optNdVal,
   m_NbOutputImages |-> nbOutputImages]

\* OutputSize as it would be if it added up the sizes of the inputs
OutputSizeOfInputs(f, Inputs) == Inputs[1] + Inputs[2]


\* Inputs: the sizes of the two input pixels (not used)
OutputSize(f, Inputs) == f.m_NbOutputImages * (f.m_SARNbBands + f.m_OptNbBands)

\* the nbBands values of image idx in the stacked pixel
GetPixel(inPix, idx, nbBands) ==
  LET start == idx * nbBands
  IN  [outBand \in 1..nbBands |-> inPix[start + outBand]]

\* IsNoData as it would be if one no-data band made the pixel no-data
IsNoDataAnyBand(pix, noDataValue) == \E i \in 1..Len(pix) : pix[i] = noDataValue


IsNoData(pix, noDataValue) == \A i \in 1..Len(pix) : pix[i] = noDataValue

\* a sequence of n copies of v
Repeat(v, n) == [i \in 1..n |-> v]

\* PrepareOutput as it would be if every band were set to the SAR no-data value
PrepareOutputSARNoData(f, imgIdx) ==
  Repeat(f.m_SARNoDataValue, f.m_NbOutputImages * (f.m_SARNbBands + f.m_OptNbBands))

\* the first loop of operator(): every output image's bands set to no-data
RECURSIVE PrepareOutput(_, _)
PrepareOutput(f, imgIdx) ==
  IF imgIdx >= f.m_NbOutputImages THEN <<>>
  ELSE Repeat(f.m_SARNoDataValue, f.m_SARNbBands)
         \o Repeat(f.m_OptNoDataValue, f.m_OptNbBands)
         \o PrepareOutput(f, imgIdx + 1)

\* outPix[outBand] = vals[0]; outBand++; ... for every value of vals
WriteBands(outPix, outBand, vals) ==
  [b \in 1..Len(outPix) |->
     IF b > outBand /\ b <= outBand + Len(vals) THEN vals[b - outBand] ELSE outPix[b]]

\* the locals of operator() when the loop over the pairs starts
FuseStart(f) ==
  [outPix |-> PrepareOutput(f, 0), outBand |-> 0, currentNbOutput |-> 0]

\* the body of the loop over the pairs, for one pair
FuseStep(f, loc, pair, inSARPix, inOptPix) ==
  LET sarIdx == pair.first
      optIdx == pair.second
      sarPix == GetPixel(inSARPix, sarIdx, f.m_SARNbBands)
      optPix == GetPixel(inOptPix, optIdx, f.m_OptNbBands)
  IN  IF ~IsNoData(sarPix, f.m_SARNoDataValue) /\ ~IsNoData(optPix, f.m_OptNoDataValue)
        THEN [outPix |-> WriteBands(WriteBands(loc.outPix, loc.outBand, sarPix),
                                    loc.outBand + f.m_SARNbBands, optPix),
              outBand |-> loc.outBand + f.m_SARNbBands + f.m_OptNbBands,
              currentNbOutput |-> loc.currentNbOutput + 1]
        ELSE loc

\* the loop's condition as it would be without the test of currentNbOutput
PairsLoopContinuesToEnd(f, loc, k) == k <= Len(f.m_Pairs)

\* pair != m_Pairs.end() && currentNbOutput < m_NbOutputImages, pair at position k
PairsLoopContinues(f, loc, k) ==
  k <= Len(f.m_Pairs) /\ loc.currentNbOutput < f.m_NbOutputImages

\* the loop over the pairs
RECURSIVE FuseLoop(_, _, _, _, _)
FuseLoop(f, loc, k, inSARPix, inOptPix) ==
  IF PairsLoopContinues(f, loc, k)
    THEN FuseLoop(f, FuseStep(f, loc, f.m_Pairs[k], inSARPix, inOptPix),
                  k + 1, inSARPix, inOptPix)
    ELSE loc

\* operator()(inSARPix, inOptPix)
PixelFunctionCall(f, inSARPix, inOptPix) ==
  FuseLoop(f, FuseStart(f), 1, inSARPix, inOptPix).outPix

(***************************************************************************)
(* InitFilter: the slicers.  Channels are counted from 1, both ends        *)
(* included.                                                               *)
(***************************************************************************)
SARSlicer(start, sarNbBands) ==
  [firstChannel |-> start, lastChannel |-> start + sarNbBands - 1]

\* OptSlicer as it would be with its first channel one too low
OptSlicerOffByOne(start, sarNbBands, optNbBands) ==
  [firstChannel |-> sarNbBands + start - 1,
   lastChannel |-> start + sarNbBands + optNbBands - 1]


OptSlicer(start, sarNbBands, optNbBands) ==
  [firstChannel |-> sarNbBands + start,
   lastChannel |-> start + sarNbBands + optNbBands - 1]

\* the slicers loop from output i on, start being the loop's variable
RECURSIVE SlicersLoop(_, _, _, _, _)
SlicersLoop(i, start, sarNbBands, optNbBands, nbOutputs) ==
  IF i > nbOutputs THEN [sarSlicers |-> <<>>, optSlicers |-> <<>>]
  ELSE LET rest == SlicersLoop(i + 1, start + sarNbBands + optNbBands,
                               sarNbBands, optNbBands, nbOutputs)
       IN  [sarSlicers |-> <<SARSlicer(start, sarNbBands)>> \o rest.sarSlicers,
            optSlicers |-> <<OptSlicer(start, sarNbBands, optNbBands)>> \o rest.optSlicers]

InitSlicers(sarNbBands, optNbBands, nbOutputs) ==
  SlicersLoop(1, 1, sarNbBands, optNbBands, nbOutputs)

(***************************************************************************)
(* The state after construction (DoInit) and parameter setting.            *)
(***************************************************************************)
\* sequences over S of length 0 .. n
SeqUpTo(S, n) == UNION {[1..m -> S] : m \in 0..n}

\* m_Filter before FilterType::New(), pixel before the first call
NullPointer == [null |-> TRUE]

\* the pixel locations the model follows
Locations == {1, 2}

\* a location at which operator() is not running, and no call at any location
NoCall == [pos |-> "idle"]

NoCalls == [l \in Locations |-> NoCall]

\* the (sorting, sorting.abs.reftimestamp) values of a run
SortingChoices == {<<ASC, "">>, <<DES, "">>, <<ABS, "">>, <<ABS, "2">>}

\* the number of components of the images of a run of DoExecute
RunBands == <<2, 1>>

Parameters(nSAR, nOpt, tsSAR, tsOpt, sorting, maxgap, bands) ==
  [ilsar |-> ImageList("sar", nSAR),
   ilopt |-> ImageList("opt", nOpt),
   timestampssar |-> tsSAR,
   timestampsopt |-> tsOpt,
   sorting |-> sorting[1],
   reftimestamp |-> sorting[2],
   maxgap |-> maxgap,
   nodatasar |-> DefaultNoDataSAR,
   nodataopt |-> DefaultNoDataOpt,
   sarNbBands |-> bands[1],
   optNbBands |-> bands[2]]

\* the (SAR, optical) lengths of two lists of a run
SeriesLengths == {n \in (0..MaxImages) \X (0..MaxImages) : n[1] + n[2] <= MaxImages}

\* the (SAR, optical) timestamps lists of a run
TimestampsLists ==
  UNION {[1..n[1] -> TimestampStrings] \X [1..n[2] -> TimestampStrings] :
           n \in SeriesLengths}

\* runs whose lists have matching lengths, with every sorting and maxgap
MatchedParameters ==
  {Parameters(Len(ts[1]), Len(ts[2]), ts[1], ts[2], sorting, maxgap, RunBands) :
     ts \in TimestampsLists,
     sorting \in SortingChoices,
     maxgap \in MaxGapValues}

\* runs in which an image list and its timestamps list differ in length (the
\* size checks come first and read neither sorting nor maxgap, so one value of
\* each is drawn)
MismatchedParameters ==
  {Parameters(n[1], n[2], ts[1], ts[2], <<ASC, "">>, 2, RunBands) :
     n \in SeriesLengths, ts \in TimestampsLists}
    \ MatchedParameters

\* m_Outputs = std::max(GetEnvironmentVariableAsInt(ENV_VAR_NOUTPUTS), 1)
OutputsChoices == {Max2(env, 1) : env \in 0..MaxOutputs}

\* the state after DoInit, the parameters set to one of parameterValues
InitWith(parameterValues) ==
  /\ params \in parameterValues
  /\ m_Outputs \in OutputsChoices
  /\ pc = "CheckNumbersSAR"
  /\ indicesPairs = <<>>
  /\ m_PairsIndices = <<>>
  /\ m_SARStack = <<>>
  /\ m_OptStack = <<>>
  /\ m_Filter = NullPointer
  /\ m_OutSAR = <<>>
  /\ m_OutOpt = <<>>
  /\ outputs = {}
  /\ exception = "none"
  /\ pixel = NullPointer
  /\ calls = NoCalls

Init == InitWith(MatchedParameters \cup MismatchedParameters)

(***************************************************************************)
(* DoExecute, step by step.  otbAppLogFATAL logs and throws; the exception *)
(* leaves DoExecute.                                                       *)
(***************************************************************************)
\* the size check as it would be if it only caught missing timestamps
CheckNumbersFailsIfFewer(imgs, timestamps) == Len(timestamps) < Len(imgs)

\* if (nTimestamps != nImgs) otbAppLogFATAL(...)
CheckNumbersFails(imgs, timestamps) == Len(timestamps) # Len(imgs)

\* the steps of DoExecute in the order of its statements, then its return
StepOrder ==
  <<"CheckNumbersSAR", "CheckNumbersOpt", "GetCandidatesPairs",
    "InstantiateSources", "InitFilter", "SetOutputs", "Done">>

StepIndex(step) == CHOOSE k \in 1..Len(StepOrder) : StepOrder[k] = step

\* otbAppLogFATAL as it would be if it logged the error and returned
LogAndReturn(what) ==
  /\ exception' = what
  /\ pc' = StepOrder[StepIndex(pc) + 1]

\* otbAppLogFATAL(...), or an exception of std::stof: the exception leaves DoExecute
Throw(what) ==
  /\ exception' = what
  /\ pc' = "Aborted"

CheckNumbersSAR ==
  /\ pc = "CheckNumbersSAR"
  /\ IF CheckNumbersFails(params.ilsar, params.timestampssar)
       THEN Throw("FATAL: images and timestamps numbers differ")
       ELSE pc' = "CheckNumbersOpt" /\ exception' = exception
  /\ UNCHANGED <<params, m_Outputs, indicesPairs, m_PairsIndices, m_SARStack,
                 m_OptStack, m_Filter, m_OutSAR, m_OutOpt, outputs, pixel, calls>>

CheckNumbersOpt ==
  /\ pc = "CheckNumbersOpt"
  /\ IF CheckNumbersFails(params.ilopt, params.timestampsopt)
       THEN Throw("FATAL: images and timestamps numbers differ")
       ELSE pc' = "GetCandidatesPairs" /\ exception' = exception
  /\ UNCHANGED <<params, m_Outputs, indicesPairs, m_PairsIndices, m_SARStack,
                 m_OptStack, m_Filter, m_OutSAR, m_OutOpt, outputs, pixel, calls>>

\* GetCandidatesPairs as it would be without the test for an empty list
ReturnCandidatesUnchecked(pairs) ==
  pc' = "InstantiateSources" /\ exception' = exception /\ indicesPairs' = pairs

\* what GetCandidatesPairs does with the list its loop built
ReturnCandidates(pairs) ==
  IF Len(pairs) = 0
    THEN Throw("FATAL: No S1/S2 pairs found") /\ indicesPairs' = indicesPairs
    ELSE pc' = "InstantiateSources" /\ exception' = exception /\ indicesPairs' = pairs

GetCandidatesPairs ==
  /\ pc = "GetCandidatesPairs"
  /\ IF GetCandidatesPairsParseError(params)
       THEN Throw("std::invalid_argument") /\ indicesPairs' = indicesPairs
       ELSE \E pairs \in CollectedPairs(params) : ReturnCandidates(pairs)
  /\ UNCHANGED <<params, m_Outputs, m_PairsIndices, m_SARStack,
                 m_OptStack, m_Filter, m_OutSAR, m_OutOpt, outputs, pixel, calls>>

InstantiateSourcesCall ==
  /\ pc = "InstantiateSources"
  /\ LET st == InstantiateSources(indicesPairs, params.ilsar, params.ilopt)
     IN  /\ m_PairsIndices' = st.outIndicesPairs
         /\ m_SARStack' = st.sarList
         /\ m_OptStack' = st.optList
  /\ pc' = "InitFilter"
  /\ UNCHANGED <<params, m_Outputs, indicesPairs, m_Filter, m_OutSAR, m_OutOpt,
                 outputs, exception, pixel, calls>>

InitFilter ==
  /\ pc = "InitFilter"
  /\ m_Filter' = SetParameters(m_PairsIndices, params.sarNbBands, params.optNbBands,
                               params.nodatasar, params.nodataopt, m_Outputs)
  /\ LET sl == InitSlicers(params.sarNbBands, params.optNbBands, m_Outputs)
     IN  /\ m_OutSAR' = sl.sarSlicers
         /\ m_OutOpt' = sl.optSlicers
  /\ pc' = "SetOutputs"
  /\ UNCHANGED <<params, m_Outputs, indicesPairs, m_PairsIndices, m_SARStack,
                 m_OptStack, outputs, exception, pixel, calls>>

\* SetParameterOutputImage(key, slicer output) for outsar<i> and outopt<i>
OutputImages(sarSlicers, optSlicers, nbOutputs) ==
  {[key |-> <<"outsar", i>>, image |-> sarSlicers[i]] : i \in 1..nbOutputs}
    \cup {[key |-> <<"outopt", i>>, image |-> optSlicers[i]] : i \in 1..nbOutputs}

SetOutputs ==
  /\ pc = "SetOutputs"
  /\ outputs' = OutputImages(m_OutSAR, m_OutOpt, m_Outputs)
  /\ pc' = "Done"
  /\ UNCHANGED <<params, m_Outputs, indicesPairs, m_PairsIndices, m_SARStack,
                 m_OptStack, m_Filter, m_OutSAR, m_OutOpt, exception, pixel, calls>>

Next ==
  \/ CheckNumbersSAR
  \/ CheckNumbersOpt
  \/ GetCandidatesPairs
  \/ InstantiateSourcesCall
  \/ InitFilter
  \/ SetOutputs

Spec == Init /\ [][Next]_vars

(***************************************************************************)
(* The functor at work.  The filter's two inputs are the stacks: a SAR     *)
(* pixel holds m_SARNbBands values per image of m_SARStack, an optical     *)
(* pixel m_OptNbBands values per image of m_OptStack.  operator() is const *)
(* and keeps nothing from one call to the next, so the model follows one   *)
(* call per behaviour, on any pixel.                                       *)
(***************************************************************************)
StackedPixels(stack, nbBands, values) == [1..(Len(stack) * nbBands) -> values]

Fuse ==
  /\ pc = "Done"
  /\ pixel = NullPointer
  /\ \E inSARPix \in StackedPixels(m_SARStack, m_Filter.m_SARNbBands, SARValues),
        inOptPix \in StackedPixels(m_OptStack, m_Filter.m_OptNbBands, OptValues) :
       pixel' = [inSARPix |-> inSARPix,
                 inOptPix |-> inOptPix,
                 outPix |-> PixelFunctionCall(m_Filter, inSARPix, inOptPix)]
  /\ UNCHANGED <<params, m_Outputs, pc, indicesPairs, m_PairsIndices, m_SARStack,
                 m_OptStack, m_Filter, m_OutSAR, m_OutOpt, outputs, exception, calls>>

(***************************************************************************)
(* SpecFuse: the functor and the slicers set up as InitFilter sets them    *)
(* up, over stacks of two images each and any pairs list of at most        *)
(* MaxPairs pairs of their indices; then a call on any pixel.              *)
(***************************************************************************)
\* indices of the images of a stack in SpecFuse
FuseFrames == {0, 1}

FusePairs == [first : FuseFrames, second : FuseFrames]

InitFuse ==
  /\ \E bands \in BandChoices :
       /\ params = Parameters(Cardinality(FuseFrames), Cardinality(FuseFrames),
                              <<"1", "3">>, <<"1", "3">>, <<ASC, "">>, 2, bands)
       /\ m_Outputs \in OutputsChoices
       /\ m_PairsIndices \in SeqUpTo(FusePairs, MaxPairs)
       /\ m_Filter = SetParameters(m_PairsIndices, bands[1], bands[2],
                                   DefaultNoDataSAR, DefaultNoDataOpt, m_Outputs)
       /\ m_OutSAR = InitSlicers(bands[1], bands[2], m_Outputs).sarSlicers
       /\ m_OutOpt = InitSlicers(bands[1], bands[2], m_Outputs).optSlicers
  /\ m_SARStack = ImageList("sar", Cardinality(FuseFrames))
  /\ m_OptStack = ImageList("opt", Cardinality(FuseFrames))
  /\ indicesPairs = <<>>
  /\ outputs = OutputImages(m_OutSAR, m_OutOpt, m_Outputs)
  /\ pc = "Done"
  /\ exception = "none"
  /\ pixel = NullPointer
  /\ calls = NoCalls

NextFuse == Fuse

SpecFuse == InitFuse /\ [][NextFuse]_vars

(***************************************************************************)
(* SpecRun: a run of DoExecute, then the functor at work.  The functor     *)
(* runs when an output image is asked for its pixels.  The output images   *)
(* are handed out by SetParameterOutputImage, the last step of DoExecute;  *)
(* DoExecute itself asks for no pixel (UpdateOutputInformation on the      *)
(* slicers calls OutputSize only), and m_Filter, m_OutSAR and m_OutOpt are *)
(* private.  The runs are those whose timestamps are floats, whose maxgap  *)
(* is 0 or 2 and whose images have one component each.                     *)
(***************************************************************************)
RunTimestampStrings == {"1", "3"}

RunMaxGapValues == {0, 2}

RunTimestampsLists ==
  UNION {[1..n[1] -> RunTimestampStrings] \X [1..n[2] -> RunTimestampStrings] :
           n \in SeriesLengths}

\* the runs whose lists have matching lengths
RunMatchedParameters ==
  {Parameters(Len(ts[1]), Len(ts[2]), ts[1], ts[2], sorting, maxgap, <<1, 1>>) :
     ts \in RunTimestampsLists,
     sorting \in SortingChoices,
     maxgap \in RunMaxGapValues}

\* the runs in which an image list and its timestamps list differ in length
RunMismatchedParameters ==
  {Parameters(n[1], n[2], ts[1], ts[2], <<ASC, "">>, 2, <<1, 1>>) :
     n \in SeriesLengths, ts \in RunTimestampsLists}
    \ RunMatchedParameters

InitRun == InitWith(RunMatchedParameters \cup RunMismatchedParameters)

NextRun ==
  \/ Next
  \/ Fuse

SpecRun == InitRun /\ [][NextRun]_vars

(***************************************************************************)
(* operator() step by step, for calls at several pixel locations at once   *)
(* (the raster engine runs the functor from several threads).  A call has  *)
(* its own arguments and its own locals: outPix, outBand, currentNbOutput  *)
(* and the iterator pair.  operator() is const: it reads the members and   *)
(* writes none.  A step is one iteration of the loop over the pairs.       *)
(***************************************************************************)
\* the locals of the call at location l, as they would be if they were static:
\* one set for all calls, here that of the first location scanning
CallLocalsStatic(l) ==
  calls[CHOOSE m \in Locations :
          /\ calls[m].pos = "scan"
          /\ \A n \in Locations : calls[n].pos = "scan" => m <= n].loc

\* the locals of the call at location l
CallLocals(l) == calls[l].loc

\* the indices of inPix that GetPixel(inPix, idx, nbBands) reads (from 0)
GetPixelReads(idx, nbBands) == (idx * nbBands)..(idx * nbBands + nbBands - 1)

\* the indices of outPix that an iteration writes when the pair is valid (from 0)
FuseStepWrites(f, loc) ==
  loc.outBand..(loc.outBand + f.m_SARNbBands + f.m_OptNbBands - 1)

\* the pixels the stacks can hold at location l: data in every band of every
\* image at the first location, any pixel at the others
PixelsAt(l, stack, nbBands, values, noDataValue) ==
  StackedPixels(stack, nbBands, IF l = 1 THEN values \ {noDataValue} ELSE values)

\* the call starts: its arguments, outPix prepared, outBand and currentNbOutput at 0
Enter(l) ==
  /\ pc = "Done"
  /\ calls[l].pos = "idle"
  /\ \E inSARPix \in PixelsAt(l, m_SARStack, m_Filter.m_SARNbBands,
                              SARValues, m_Filter.m_SARNoDataValue),
        inOptPix \in PixelsAt(l, m_OptStack, m_Filter.m_OptNbBands,
                              OptValues, m_Filter.m_OptNoDataValue) :
       calls' = [calls EXCEPT ![l] = [pos |-> "scan",
                                      inSARPix |-> inSARPix,
                                      inOptPix |-> inOptPix,
                                      pair |-> 1,
                                      loc |-> FuseStart(m_Filter)]]
  /\ UNCHANGED <<params, m_Outputs, pc, indicesPairs, m_PairsIndices, m_SARStack,
                 m_OptStack, m_Filter, m_OutSAR, m_OutOpt, outputs, exception, pixel>>

\* one iteration of the loop over the pairs
ScanPair(l) ==
  /\ calls[l].pos = "scan"
  /\ PairsLoopContinues(m_Filter, CallLocals(l), calls[l].pair)
  /\ calls' = [calls EXCEPT
                 ![l].loc = FuseStep(m_Filter, CallLocals(l),
                                     m_Filter.m_Pairs[calls[l].pair],
                                     calls[l].inSARPix, calls[l].inOptPix),
                 ![l].pair = @ + 1]
  /\ UNCHANGED <<params, m_Outputs, pc, indicesPairs, m_PairsIndices, m_SARStack,
                 m_OptStack, m_Filter, m_OutSAR, m_OutOpt, outputs, exception, pixel>>

\* the loop has ended: return outPix
Return(l) ==
  /\ calls[l].pos = "scan"
  /\ ~PairsLoopContinues(m_Filter, CallLocals(l), calls[l].pair)
  /\ calls' = [calls EXCEPT ![l].pos = "returned"]
  /\ UNCHANGED <<params, m_Outputs, pc, indicesPairs, m_PairsIndices, m_SARStack,
                 m_OptStack, m_Filter, m_OutSAR, m_OutOpt, outputs, exception, pixel>>

(***************************************************************************)
(* SpecCalls: the state a completed DoExecute leaves, for input lists of   *)
(* two images each and any candidate list of 1 .. MaxPairs pairs:          *)
(* InstantiateSources has built the stacks and m_PairsIndices, InitFilter  *)
(* the functor and the slicers.  Then the calls, interleaved.              *)
(***************************************************************************)
\* the candidate lists: GetCandidatesPairs returns no empty list
CandidateLists == SeqUpTo(FusePairs, MaxPairs) \ {<<>>}

InitCalls ==
  /\ params = Parameters(Cardinality(FuseFrames), Cardinality(FuseFrames),
                         <<"1", "3">>, <<"1", "3">>, <<ASC, "">>, 2, RunBands)
  /\ m_Outputs \in OutputsChoices
  /\ \E candidates \in CandidateLists :
       LET st == InstantiateSources(candidates, params.ilsar, params.ilopt)
       IN  /\ m_PairsIndices = st.outIndicesPairs
           /\ m_SARStack = st.sarList
           /\ m_OptStack = st.optList
  /\ m_Filter = SetParameters(m_PairsIndices, params.sarNbBands, params.optNbBands,
                              params.nodatasar, params.nodataopt, m_Outputs)
  /\ m_OutSAR = InitSlicers(params.sarNbBands, params.optNbBands, m_Outputs).sarSlicers
  /\ m_OutOpt = InitSlicers(params.sarNbBands, params.optNbBands, m_Outputs).optSlicers
  /\ indicesPairs = <<>>
  /\ outputs = OutputImages(m_OutSAR, m_OutOpt, m_Outputs)
  /\ pc = "Done"
  /\ exception = "none"
  /\ pixel = NullPointer
  /\ calls = NoCalls

NextCalls == \E l \in Locations : Enter(l) \/ ScanPair(l) \/ Return(l)

SpecCalls == InitCalls /\ [][NextCalls]_vars

(***************************************************************************)
(* What the claims about the functor speak of, said without the functor's  *)
(* own loops.                                                              *)
(***************************************************************************)
Called == pixel # NullPointer

\* the nbBands values of image idx in a stacked pixel
SubPixel(pix, idx, nbBands) == SubSeq(pix, idx * nbBands + 1, idx * nbBands + nbBands)

AllEqual(vals, v) == \A i \in DOMAIN vals : vals[i] = v

\* neither sub-pixel of the pair is entirely equal to its no-data value
PairIsValid(pair) ==
  /\ ~AllEqual(SubPixel(pixel.inSARPix, pair.first, m_Filter.m_SARNbBands),
               m_Filter.m_SARNoDataValue)
  /\ ~AllEqual(SubPixel(pixel.inOptPix, pair.second, m_Filter.m_OptNbBands),
               m_Filter.m_OptNoDataValue)

\* the valid pairs of the call, in the order of m_Pairs
ValidPairs == SelectSeq(m_Filter.m_Pairs, PairIsValid)

\* the SAR values then the optical values of a pair
PairValues(pair) ==
  SubPixel(pixel.inSARPix, pair.first, m_Filter.m_SARNbBands)
    \o SubPixel(pixel.inOptPix, pair.second, m_Filter.m_OptNbBands)

SlotWidth == m_Filter.m_SARNbBands + m_Filter.m_OptNbBands

\* slot j (from 0) of the output pixel
Slot(j) == SubSeq(pixel.outPix, j * SlotWidth + 1, j * SlotWidth + SlotWidth)

\* the SAR no-data value for every SAR band, then the optical one for every optical band
SentinelSlot ==
  [b \in 1..SlotWidth |->
     IF b <= m_Filter.m_SARNbBands THEN m_Filter.m_SARNoDataValue
                                   ELSE m_Filter.m_OptNoDataValue]

\* MultiChannelExtractROI: the channels firstChannel .. lastChannel of a pixel
ExtractChannels(slicer, pix) == SubSeq(pix, slicer.firstChannel, slicer.lastChannel)

Channels(slicer) == slicer.firstChannel .. slicer.lastChannel

(***************************************************************************)
(* C1.  When at least N = m_NbOutputImages pairs are valid for the pixel,  *)
(* output slot j (0 <= j < N) holds the SAR then optical values of the     *)
(* (j+1)-th valid pair in the order of the pairs list; valid pairs after   *)
(* the N-th leave no trace in the output.                                  *)
(***************************************************************************)
C1_FirstValidPairsFillSlots ==
  (Called /\ Len(ValidPairs) >= m_Filter.m_NbOutputImages) =>
    /\ Len(pixel.outPix) = m_Filter.m_NbOutputImages * SlotWidth
    /\ \A j \in 0..(m_Filter.m_NbOutputImages - 1) : Slot(j) = PairValues(ValidPairs[j + 1])

\* a call with more valid pairs than slots, an invalid pair before the first valid
\* one, and a first ignored pair whose values differ from the last slot's
C1_Witness ==
  /\ Called
  /\ Len(ValidPairs) > m_Filter.m_NbOutputImages
  /\ ~PairIsValid(m_Filter.m_Pairs[1])
  /\ PairValues(ValidPairs[m_Filter.m_NbOutputImages + 1])
       # PairValues(ValidPairs[m_Filter.m_NbOutputImages])

(***************************************************************************)
(* C2.  When only k < N pairs are valid for the pixel, slots 0 .. k-1 hold *)
(* those pairs in order and every slot k .. N-1 is the sentinel vector     *)
(* (SAR no-data for each SAR band, then optical no-data for each optical   *)
(* band).  In every call, every slot is either the values of one valid     *)
(* pair or the sentinel vector.                                            *)
(***************************************************************************)
C2_TrailingSlotsAreSentinel ==
  Called =>
    /\ Len(ValidPairs) < m_Filter.m_NbOutputImages =>
         /\ \A j \in 0..(Len(ValidPairs) - 1) : Slot(j) = PairValues(ValidPairs[j + 1])
         /\ \A j \in Len(ValidPairs)..(m_Filter.m_NbOutputImages - 1) : Slot(j) = SentinelSlot
    /\ \A j \in 0..(m_Filter.m_NbOutputImages - 1) :
         \/ Slot(j) = SentinelSlot
         \/ \E k \in 1..Len(ValidPairs) : Slot(j) = PairValues(ValidPairs[k])

\* a call with one valid pair for two slots, after an invalid pair whose SAR
\* sub-pixel is valid (its values must not reach the output)
C2_Witness ==
  /\ Called
  /\ m_Filter.m_NbOutputImages = 2
  /\ Len(ValidPairs) = 1
  /\ Len(m_Filter.m_Pairs) >= 2
  /\ ~PairIsValid(m_Filter.m_Pairs[1])
  /\ ~AllEqual(SubPixel(pixel.inSARPix, m_Filter.m_Pairs[1].first, m_Filter.m_SARNbBands),
               m_Filter.m_SARNoDataValue)

(***************************************************************************)
(* C8.  For every slot i in 0 .. N-1 the SAR slicer selects the channels   *)
(* i*(sar+opt)+1 .. i*(sar+opt)+sar and the optical slicer the next opt    *)
(* channels (counted from 1, both ends included); the 2N ranges are        *)
(* pairwise disjoint and cover 1 .. N*(sar+opt); and what the slicers of   *)
(* slot i extract from a pixel of the functor is the SAR part and the      *)
(* optical part of what the functor put in slot i.  With 2 SAR bands, 1    *)
(* optical band and N = 2 the ranges are [1,2], [3], [4,5], [6].           *)
(***************************************************************************)
C8_SlicersMatchSlots ==
  LET N == m_Outputs
      sar == params.sarNbBands
      opt == params.optNbBands
      all == [i \in 1..(2 * N) |->
                IF i <= N THEN Channels(m_OutSAR[i]) ELSE Channels(m_OutOpt[i - N])]
  IN  /\ Len(m_OutSAR) = N /\ Len(m_OutOpt) = N
      /\ \A i \in 0..(N - 1) :
           /\ m_OutSAR[i + 1] = [firstChannel |-> i * (sar + opt) + 1,
                                 lastChannel |-> i * (sar + opt) + sar]
           /\ m_OutOpt[i + 1] = [firstChannel |-> i * (sar + opt) + sar + 1,
                                 lastChannel |-> i * (sar + opt) + sar + opt]
      /\ \A i, j \in 1..(2 * N) : i # j => all[i] \cap all[j] = {}
      /\ UNION {all[i] : i \in 1..(2 * N)} = 1..(N * (sar + opt))
      /\ (sar = 2 /\ opt = 1 /\ N = 2) =>
           /\ m_OutSAR = <<[firstChannel |-> 1, lastChannel |-> 2],
                           [firstChannel |-> 4, lastChannel |-> 5]>>
           /\ m_OutOpt = <<[firstChannel |-> 3, lastChannel |-> 3],
                           [firstChannel |-> 6, lastChannel |-> 6]>>
      /\ Called =>
           \A i \in 0..(N - 1) :
             IF i < Len(ValidPairs)
               THEN /\ ExtractChannels(m_OutSAR[i + 1], pixel.outPix)
                         = SubPixel(pixel.inSARPix, ValidPairs[i + 1].first, sar)
                    /\ ExtractChannels(m_OutOpt[i + 1], pixel.outPix)
                         = SubPixel(pixel.inOptPix, ValidPairs[i + 1].second, opt)
               ELSE /\ ExtractChannels(m_OutSAR[i + 1], pixel.outPix)
                         = [b \in 1..sar |-> m_Filter.m_SARNoDataValue]
                    /\ ExtractChannels(m_OutOpt[i + 1], pixel.outPix)
                         = [b \in 1..opt |-> m_Filter.m_OptNoDataValue]

\* 2 SAR bands, 1 optical band, two slots, both filled by valid pairs of
\* different images
C8_Witness ==
  /\ Called
  /\ params.sarNbBands = 2 /\ params.optNbBands = 1 /\ m_Outputs = 2
  /\ Len(ValidPairs) >= 2
  /\ ValidPairs[1].first # ValidPairs[2].first
  /\ ExtractChannels(m_OutSAR[2], pixel.outPix) # ExtractChannels(m_OutSAR[1], pixel.outPix)

(***************************************************************************)
(* C9.  OutputSize is N*(sar+opt) whatever its argument (the sizes of the  *)
(* input pixels), before any pixel is computed, and every pixel the        *)
(* functor returns has that length, whatever the pixel and however many    *)
(* pairs are valid.                                                        *)
(***************************************************************************)
C9_OutputSizeIsPixelLength ==
  /\ \A Inputs \in (0..4) \X (0..4) :
       OutputSize(m_Filter, Inputs) = m_Outputs * (params.sarNbBands + params.optNbBands)
  /\ Called =>
       Len(pixel.outPix) = OutputSize(m_Filter, <<Len(pixel.inSARPix), Len(pixel.inOptPix)>>)

\* calls with no valid pair, and with more valid pairs than slots, both seen
\* through the same state: a call whose pairs list is longer than N, none valid
C9_Witness ==
  /\ Called
  /\ Len(m_Filter.m_Pairs) > m_Filter.m_NbOutputImages
  /\ Len(ValidPairs) = 0
  /\ m_Filter.m_SARNbBands # m_Filter.m_OptNbBands

(***************************************************************************)
(* What the claims about a run of DoExecute speak of.  Timestamps are the  *)
(* parsed ones (float), and gaps are taken in float arithmetic, as         *)
(* TimestampType has them.                                                 *)
(***************************************************************************)
\* GetCandidatesPairs has just returned its list to DoExecute (indicesPairs is
\* not assigned again)
CandidatesReturned == pc = "InstantiateSources"

\* InstantiateSources has just returned (its results are not assigned again)
SourcesInstantiated == pc = "InitFilter"

SARIndices == 0..(Len(params.timestampssar) - 1)
OptIndices == 0..(Len(params.timestampsopt) - 1)

\* the timestamp of SAR image r, of optical image o (original indices, from 0)
SARTimestamp(r) == Str2Timestamp(params.timestampssar[r + 1])
OptTimestamp(o) == Str2Timestamp(params.timestampsopt[o + 1])

\* |radarTimestamp - opticalTimestamp| of SAR image r and optical image o
Gap(r, o) == FloatAbs(FloatSub(SARTimestamp(r), OptTimestamp(o)))

\* |timestamp - R| of optical image o, R the reference timestamp
GapToReference(o) ==
  FloatAbs(FloatSub(OptTimestamp(o), Str2Timestamp(params.reftimestamp)))

AdmissibleCombination ==
  \E r \in SARIndices, o \in OptIndices : Gap(r, o) <= params.maxgap

SARMismatch == Len(params.ilsar) # Len(params.timestampssar)
OptMismatch == Len(params.ilopt) # Len(params.timestampsopt)
ABSWithoutReference == params.sorting = ABS /\ params.reftimestamp = ""

(***************************************************************************)
(* C3.  Every candidate pair (SAR index, optical index) that               *)
(* GetCandidatesPairs returns has a gap <= maxgap between the timestamps   *)
(* of the two original entries it names, and every (SAR entry, optical     *)
(* entry) combination with a gap <= maxgap is in the list exactly once.    *)
(***************************************************************************)
C3_PairsAreExactlyTheAdmissibleCombinations ==
  CandidatesReturned =>
    LET gap == [r \in SARIndices, o \in OptIndices |-> Gap(r, o)]
    IN  /\ \A k \in 1..Len(indicesPairs) :
             /\ indicesPairs[k].first \in SARIndices
             /\ indicesPairs[k].second \in OptIndices
             /\ gap[indicesPairs[k].first, indicesPairs[k].second] <= params.maxgap
        /\ \A r \in SARIndices, o \in OptIndices :
             gap[r, o] <= params.maxgap =>
               Cardinality({k \in 1..Len(indicesPairs) :
                              indicesPairs[k] = [first |-> r, second |-> o]}) = 1

\* a returned list in which a combination is left out for its gap, one is kept
\* with a gap equal to maxgap, and the first pair names SAR image 1, not 0
C3_Witness ==
  /\ CandidatesReturned
  /\ \E r \in SARIndices, o \in OptIndices : Gap(r, o) > params.maxgap
  /\ \E k \in 1..Len(indicesPairs) :
       Gap(indicesPairs[k].first, indicesPairs[k].second) = params.maxgap
  /\ indicesPairs[1].first = 1
  /\ Len(indicesPairs) >= 2

C5_NoEmptyCandidateList ==
  /\ CandidatesReturned => Len(indicesPairs) >= 1
  /\ ( /\ ~SARMismatch /\ ~OptMismatch
       /\ ~AdmissibleCombination
       /\ pc \notin {"CheckNumbersSAR", "CheckNumbersOpt", "GetCandidatesPairs"} )
       => /\ pc = "Aborted"
          /\ indicesPairs = <<>>
          /\ exception = IF ABSWithoutReference THEN "std::invalid_argument"
                                                ELSE "FATAL: No S1/S2 pairs found"

\* the fatal error on two non-empty series whose timestamps are all too far apart
C5_Witness ==
  /\ pc = "Aborted"
  /\ exception = "FATAL: No S1/S2 pairs found"
  /\ Len(params.timestampssar) >= 1
  /\ Len(params.timestampsopt) >= 2
  /\ indicesPairs = <<>>

(***************************************************************************)
(* C6.  After InstantiateSources, on the SAR side and on the optical side  *)
(* alike: the new indices in m_PairsIndices are exactly 0 .. k-1, k the    *)
(* number of distinct original indices in the candidate pairs; new index   *)
(* j+1 first occurs after new index j first occurs; and the stack holds k  *)
(* images, at most as many as the input list, none of them twice.          *)
(***************************************************************************)
FirstOccurrence(vals, v) ==
  CHOOSE k \in 1..Len(vals) : vals[k] = v /\ \A m \in 1..(k - 1) : vals[m] # v

CompactSide(old, new, stack, inList) ==
  LET k == Cardinality({old[i] : i \in 1..Len(old)})
  IN  /\ {new[i] : i \in 1..Len(new)} = 0..(k - 1)
      /\ \A j \in 0..(k - 2) : FirstOccurrence(new, j) < FirstOccurrence(new, j + 1)
      /\ Len(stack) = k
      /\ k <= Len(inList)
      /\ \A a, b \in 1..Len(stack) : a # b => stack[a] # stack[b]

C6_NewIndicesAreCompact ==
  SourcesInstantiated =>
    /\ CompactSide([i \in 1..Len(indicesPairs) |-> indicesPairs[i].first],
                   [i \in 1..Len(m_PairsIndices) |-> m_PairsIndices[i].first],
                   m_SARStack, params.ilsar)
    /\ CompactSide([i \in 1..Len(indicesPairs) |-> indicesPairs[i].second],
                   [i \in 1..Len(m_PairsIndices) |-> m_PairsIndices[i].second],
                   m_OptStack, params.ilopt)

\* SAR image 1 met first, SAR image 0 later, and more pairs than SAR images
C6_Witness ==
  /\ SourcesInstantiated
  /\ indicesPairs[1].first = 1
  /\ \E i \in 1..Len(indicesPairs) : indicesPairs[i].first = 0
  /\ Len(indicesPairs) > Len(m_SARStack)

(***************************************************************************)
(* C7.  After InstantiateSources, m_PairsIndices is as long as the         *)
(* candidate list and, position by position, names in the stacks the very  *)
(* images the candidate pair names in the input lists; two candidate pairs *)
(* get the same new index on a side iff they name the same original index  *)
(* on that side.                                                           *)
(***************************************************************************)
C7_PairsTranslatedInPlace ==
  SourcesInstantiated =>
    /\ Len(m_PairsIndices) = Len(indicesPairs)
    /\ \A i \in 1..Len(indicesPairs) :
         /\ m_PairsIndices[i].first \in 0..(Len(m_SARStack) - 1)
         /\ m_PairsIndices[i].second \in 0..(Len(m_OptStack) - 1)
         /\ m_SARStack[m_PairsIndices[i].first + 1] = params.ilsar[indicesPairs[i].first + 1]
         /\ m_OptStack[m_PairsIndices[i].second + 1] = params.ilopt[indicesPairs[i].second + 1]
    /\ \A i, j \in 1..Len(indicesPairs) :
         /\ (m_PairsIndices[i].first = m_PairsIndices[j].first)
              <=> (indicesPairs[i].first = indicesPairs[j].first)
         /\ (m_PairsIndices[i].second = m_PairsIndices[j].second)
              <=> (indicesPairs[i].second = indicesPairs[j].second)

\* three pairs or more, the first of which gets new indices that are not its
\* original ones, and a later one that repeats a SAR image
C7_Witness ==
  /\ SourcesInstantiated
  /\ Len(indicesPairs) >= 3
  /\ indicesPairs[1].first # m_PairsIndices[1].first
  /\ indicesPairs[1].second # m_PairsIndices[1].second
  /\ \E i \in 2..Len(indicesPairs) : indicesPairs[i].first = indicesPairs[1].first

(***************************************************************************)
(* C10.  A run whose SAR or optical image list differs in length from its  *)
(* timestamps list, or whose sorting is ABS with no reference timestamp,   *)
(* never gets candidate pairs: it stays before the end of                  *)
(* GetCandidatesPairs until it ends with an exception (a length mismatch   *)
(* ends it in its CheckNumbers), and it is never left without a next step  *)
(* short of that.                                                          *)
(***************************************************************************)
C10_ConfigurationErrorsAreFatal ==
  (SARMismatch \/ OptMismatch \/ ABSWithoutReference) =>
    /\ indicesPairs = <<>>
    /\ pc \in {"CheckNumbersSAR", "CheckNumbersOpt", "GetCandidatesPairs", "Aborted"}
    /\ SARMismatch => pc \in {"CheckNumbersSAR", "Aborted"}
    /\ OptMismatch => pc \in {"CheckNumbersSAR", "CheckNumbersOpt", "Aborted"}
    /\ pc = "Aborted" => exception # "none"
    /\ pc # "Aborted" => ENABLED Next

\* ABS with no reference timestamp, on series that have admissible combinations:
\* the run has ended with stof's exception and no pairs
C10_Witness ==
  /\ ABSWithoutReference
  /\ ~SARMismatch /\ ~OptMismatch
  /\ AdmissibleCombination
  /\ pc = "Aborted"
  /\ exception = "std::invalid_argument"

(***************************************************************************)
(* What C11 speaks of.                                                     *)
(***************************************************************************)
\* GetCandidatesPairs has returned its list
MatchPairsCompleted ==
  /\ pc \in {"InstantiateSources", "InitFilter", "SetOutputs", "Done"}
  /\ indicesPairs # <<>>

\* InstantiateSources has built the stacks and the pairs of new indices
CompactCompleted ==
  /\ pc \in {"InitFilter", "SetOutputs", "Done"}
  /\ Len(m_PairsIndices) = Len(indicesPairs)
  /\ m_SARStack # <<>>
  /\ m_OptStack # <<>>

\* a fatal error was raised in the run
FatalErrorRaised == exception # "none"

\* every outsar<i>, outopt<i> of the run is set
AllOutputsSet ==
  \A i \in 1..m_Outputs :
    /\ \E o \in outputs : o.key = <<"outsar", i>>
    /\ \E o \in outputs : o.key = <<"outopt", i>>

\* what every state of a run satisfies
RunOrderingState ==
  /\ (outputs # {} \/ Called) =>
       /\ MatchPairsCompleted
       /\ CompactCompleted
       /\ m_Filter # NullPointer
       /\ ~FatalErrorRaised
  /\ Called => AllOutputsSet
  /\ pc = "Done" => AllOutputsSet
  /\ FatalErrorRaised => (pc = "Aborted" /\ outputs = {} /\ ~Called)
  /\ pc = "Aborted" => FatalErrorRaised

\* what every step of a run satisfies
RunOrderingStep ==
  \* nothing follows a fatal error
  /\ ~FatalErrorRaised
  /\ pc # "Aborted"
  \* a step ends the run with an error (only the checks and GetCandidatesPairs do),
  \* or hands over to the next step in order, or is a call of the functor
  /\ \/ /\ pc' = "Aborted"
        /\ pc \in {"CheckNumbersSAR", "CheckNumbersOpt", "GetCandidatesPairs"}
     \/ /\ pc # "Done"
        /\ pc' # "Aborted"
        /\ StepIndex(pc') = StepIndex(pc) + 1
     \/ /\ pc = "Done"
        /\ pc' = "Done"
        /\ pixel' # pixel
  \* each effect belongs to its step
  /\ indicesPairs' # indicesPairs => pc = "GetCandidatesPairs"
  /\ (m_PairsIndices' # m_PairsIndices \/ m_SARStack' # m_SARStack
        \/ m_OptStack' # m_OptStack) => pc = "InstantiateSources"
  /\ (m_Filter' # m_Filter \/ m_OutSAR' # m_OutSAR \/ m_OutOpt' # m_OutOpt)
       => pc = "InitFilter"
  /\ outputs' # outputs => pc = "SetOutputs"
  /\ pixel' # pixel => pc = "Done"

(***************************************************************************)
(* C11.  In every run the steps occur in the order size checks,            *)
(* GetCandidatesPairs, InstantiateSources, InitFilter, output setting; no  *)
(* call of the functor and no output is set before GetCandidatesPairs and  *)
(* InstantiateSources have both completed; and in a run in which a fatal   *)
(* error is raised (size mismatch, ABS without reference, no candidate     *)
(* pair) nothing follows the error: no pixel is fused, no output is set.   *)
(***************************************************************************)
C11_RunOrdering == []RunOrderingState /\ [][RunOrderingStep]_vars

\* a completed run with two pairs or more and every output set, whose functor
\* has been called on a pixel
C11_Witness ==
  /\ Called
  /\ pc = "Done"
  /\ Len(indicesPairs) >= 2
  /\ m_Outputs = MaxOutputs
  /\ AllOutputsSet

(***************************************************************************)
(* What C12 and C13 speak of.                                              *)
(***************************************************************************)
\* what the calls share: the functor's members and what they were set from
Configuration ==
  <<m_Filter, m_PairsIndices, m_SARStack, m_OptStack, m_OutSAR, m_OutOpt,
    m_Outputs, params>>

Running(l) == calls[l].pos = "scan"

Returned(l) == calls[l].pos = "returned"

\* what a call alone, run from start to end, returns for the arguments of the
\* call at location l
SequentialResult(l) ==
  PixelFunctionCall(m_Filter, calls[l].inSARPix, calls[l].inOptPix)

\* every call that has returned, returned what a call alone returns
CallsAgreeWithSequential ==
  /\ \A l \in Locations : Returned(l) => calls[l].loc.outPix = SequentialResult(l)
  /\ \A l, m \in Locations :
       (/\ Returned(l) /\ Returned(m)
        /\ calls[l].inSARPix = calls[m].inSARPix
        /\ calls[l].inOptPix = calls[m].inOptPix)
         => calls[l].loc.outPix = calls[m].loc.outPix

\* a step is the step of one call: it leaves the configuration, the other calls
\* and its own arguments as they are
CallsStepAlone ==
  /\ Configuration' = Configuration
  /\ \E l \in Locations : \A m \in Locations \ {l} : calls'[m] = calls[m]
  /\ \A l \in Locations :
       calls[l].pos # "idle" =>
         /\ calls'[l].inSARPix = calls[l].inSARPix
         /\ calls'[l].inOptPix = calls[l].inOptPix

(***************************************************************************)
(* C12.  A call of operator() never changes m_Pairs, the numbers of bands, *)
(* the no-data values or m_NbOutputImages, nor anything of another call;   *)
(* so, however the calls at different pixel locations interleave, each     *)
(* returns what a call alone returns for its arguments, and equal          *)
(* arguments give equal results.                                           *)
(***************************************************************************)
C12_CallsDoNotInterfere == []CallsAgreeWithSequential /\ [][CallsStepAlone]_vars

\* two calls under way at once, both past their first pair with pairs still to
\* scan, on different pixels and with different locals
C12_Witness ==
  /\ \A l \in Locations :
       /\ Running(l)
       /\ calls[l].pair >= 2
       /\ PairsLoopContinues(m_Filter, calls[l].loc, calls[l].pair)
  /\ calls[1].inSARPix # calls[2].inSARPix
  /\ calls[1].loc # calls[2].loc

(***************************************************************************)
(* C13.  At every step of the loop over the pairs outBand equals           *)
(* currentNbOutput * (m_SARNbBands + m_OptNbBands) and currentNbOutput is  *)
(* at most m_NbOutputImages, so the bands an iteration writes lie inside   *)
(* outPix, whose size is m_NbOutputImages * (m_SARNbBands + m_OptNbBands); *)
(* and with m_Pairs built by InstantiateSources and input pixels of        *)
(* m_SARNbBands values per image of m_SARStack and m_OptNbBands values per *)
(* image of m_OptStack, every GetPixel reads inside its input pixel.       *)
(***************************************************************************)
C13_FuseIndexSafety ==
  \A l \in Locations :
    calls[l].pos # "idle" =>
      LET f == m_Filter
          loc == calls[l].loc
          width == f.m_SARNbBands + f.m_OptNbBands
      IN  /\ loc.currentNbOutput <= f.m_NbOutputImages
          /\ loc.outBand = loc.currentNbOutput * width
          /\ Len(loc.outPix) = f.m_NbOutputImages * width
          /\ (Running(l) /\ PairsLoopContinues(f, loc, calls[l].pair)) =>
               FuseStepWrites(f, loc) \subseteq 0..(Len(loc.outPix) - 1)
          /\ Len(calls[l].inSARPix) = Len(m_SARStack) * f.m_SARNbBands
          /\ Len(calls[l].inOptPix) = Len(m_OptStack) * f.m_OptNbBands
          /\ \A k \in 1..Len(f.m_Pairs) :
               /\ GetPixelReads(f.m_Pairs[k].first, f.m_SARNbBands)
                    \subseteq 0..(Len(calls[l].inSARPix) - 1)
               /\ GetPixelReads(f.m_Pairs[k].second, f.m_OptNbBands)
                    \subseteq 0..(Len(calls[l].inOptPix) - 1)

\* a call that has skipped a pair and filled a slot, with a slot left and a pair
\* still to scan, on stacks of one SAR image and two optical images
C13_Witness ==
  \E l \in Locations :
    /\ Running(l)
    /\ calls[l].pair = 3
    /\ calls[l].loc.currentNbOutput = 1
    /\ calls[l].loc.outBand > 0
    /\ PairsLoopContinues(m_Filter, calls[l].loc, calls[l].pair)
    /\ Len(m_SARStack) = 1
    /\ Len(m_OptStack) = 2

====
